---------------------------- MODULE Spec2Model ----------------------------
(***************************************************************************)
(* Model of src/authorizers/basicauth.py: the Basic-Auth credential        *)
(* decoder (basicauth_decode), the ARN parser (parse_arn), the policy      *)
(* builder (class AuthPolicy) and the lambda handler                       *)
(* (check_basicauth_header_authorization_handler).                         *)
(*                                                                         *)
(* Python values are represented as follows.                               *)
(*   str     a sequence of one-character strings, <<"a", ":", "b">>        *)
(*   bytes   a sequence of integers in 0..255                              *)
(*   None    the empty option <<>>; a value x that may be None is carried  *)
(*           as the one-element option <<x>>                               *)
(*   list    a sequence                                                    *)
(*   dict    a function from key to value                                  *)
(* An operation that may raise returns a record whose field exc names the  *)
(* exception ("" when the operation returns normally).                     *)
(***************************************************************************)
EXTENDS Integers, Sequences, FiniteSets, TLC

VARIABLES
    arn_str,          \* parse_arn: the argument of the call
    parsed,           \* parse_arn: None before the call, Some(outcome) after
    encoded_str,      \* basicauth_decode: the argument of the call
    decoded,          \* basicauth_decode: None before the call, Some(outcome) after
    event,            \* handler: the event of the invocation
    response,         \* handler: None before the invocation, Some(outcome) after
    AuthPolicy_class, \* class attributes of AuthPolicy that hold mutable lists
    instances,        \* builder slot -> None, or Some(instance __dict__)
    lastCall          \* the last AuthPolicy call: its receiver, arguments and outcome

vars == <<arn_str, parsed, encoded_str, decoded, event, response,
          AuthPolicy_class, instances, lastCall>>

(***************************************************************************)
(* Options and small helpers                                               *)
(***************************************************************************)
None == <<>>

Some(x) == <<x>>

IsNone(o) == Len(o) = 0

Get(o) == o[1]

Range(s) == {s[i] : i \in DOMAIN s}

\* All sequences over S of length at most n.
SeqsUpTo(S, n) == UNION {[1..k -> S] : k \in 0..n}

(***************************************************************************)
(* Python str operations                                                   *)
(***************************************************************************)
\* s.count(ch) for a one-character ch
Count(s, ch) == Cardinality({i \in DOMAIN s : s[i] = ch})

\* ch in s
Contains(s, ch) == \E i \in DOMAIN s : s[i] = ch

\* s.find(ch) + 1, or 0 when ch does not occur
Find(s, ch) ==
    IF Contains(s, ch) THEN CHOOSE i \in DOMAIN s : s[i] = ch /\ \A j \in 1..(i-1) : s[j] # ch
    ELSE 0

RECURSIVE Split(_, _, _)
\* s.split(sep, maxsplit) for a one-character sep; maxsplit = -1 splits at
\* every occurrence.
Split(s, sep, maxsplit) ==
    LET i == Find(s, sep)
    IN  IF maxsplit = 0 \/ i = 0 THEN <<s>>
        ELSE <<SubSeq(s, 1, i - 1)>> \o Split(SubSeq(s, i + 1, Len(s)), sep, maxsplit - 1)

\* the tail s[k:] of a list or str (k counted from 0)
From(s, k) == SubSeq(s, k + 1, Len(s))

(***************************************************************************)
(* parse_arn                                                               *)
(***************************************************************************)
ParseFailure(name) ==
    [exc |-> name, service |-> None, region |-> None, account_id |-> None,
     resource_type |-> None, resource |-> None, qualifiers |-> None]

\* The star-unpacking on line 180:
\*   *_, service, region, account_id, resource_elements = <pieces>
\* It needs at least four pieces and binds the last four.
StarUnpack_atLeastFive(pieces) ==
    LET n == Len(pieces)
    IN  IF n < 5 THEN [exc |-> "ValueError", bound |-> <<>>]
        ELSE [exc |-> "", bound |-> SubSeq(pieces, n - 3, n)]

StarUnpack(pieces) ==
    LET n == Len(pieces)
    IN  IF n < 4 THEN [exc |-> "ValueError", bound |-> <<>>]
        ELSE [exc |-> "", bound |-> SubSeq(pieces, n - 3, n)]

\* Lines 182-200: the classification of resource_elements.  The result is
\* the triple of locals (resource_type, resource, qualifiers) that line 202
\* returns.  Lines 189 and 194 assign the first piece to a local spelled
\* resoruce_type, and line 200 assigns the second piece to a local spelled
\* qualifier, so neither assignment reaches the returned locals.
ClassifyResource(resource_elements) ==
    LET hasColon == Contains(resource_elements, ":")
        hasSlash == Contains(resource_elements, "/")
        byColon  == Split(resource_elements, ":", -1)
        bySlash  == Split(resource_elements, "/", -1)
        ok(t, r, q) == [exc |-> "", resource_type |-> t, resource |-> r, qualifiers |-> q]
        bad == [exc |-> "ValueError", resource_type |-> None, resource |-> None,
                qualifiers |-> None]
    IN  IF ~hasColon /\ ~hasSlash THEN
            ok(None, Some(resource_elements), None)
        ELSE IF hasColon /\ ~hasSlash THEN
            IF Count(resource_elements, ":") = 1
            THEN ok(None, Some(byColon[2]), None)
            ELSE ok(Some(byColon[1]), Some(byColon[2]), Some(From(byColon, 2)))
        ELSE IF ~hasColon /\ hasSlash THEN
            IF Count(resource_elements, "/") = 1
            THEN ok(None, Some(bySlash[2]), None)
            ELSE ok(Some(bySlash[1]), Some(bySlash[2]), Some(From(bySlash, 2)))
        ELSE
            \* two-target unpackings: each needs exactly two pieces
            IF Len(bySlash) # 2 THEN bad
            ELSE LET remaining == Split(bySlash[2], ":", -1)
                 IN  IF Len(remaining) # 2 THEN bad
                     ELSE ok(Some(bySlash[1]), Some(remaining[1]), None)

parse_arn(s) ==
    LET u == StarUnpack(Split(s, ":", 5))
    IN  IF u.exc # "" THEN ParseFailure(u.exc)
        ELSE LET c == ClassifyResource(u.bound[4])
             IN  IF c.exc # "" THEN ParseFailure(c.exc)
                 ELSE [exc |-> "", service |-> Some(u.bound[1]), region |-> Some(u.bound[2]),
                       account_id |-> Some(u.bound[3]), resource_type |-> c.resource_type,
                       resource |-> c.resource, qualifiers |-> c.qualifiers]

(***************************************************************************)
(* Characters, bytes and typed Python values                               *)
(***************************************************************************)
\* The printable ASCII characters, code 32 first.  DQUOTE, QUOTE, BSLASH
\* and BACKTICK stand for the characters of codes 34, 39, 92 and 96.
Printable ==
    << " ", "!", "DQUOTE", "#", "$", "%", "&", "QUOTE", "(", ")", "*", "+", ",", "-", ".", "/",
       "0", "1", "2", "3", "4", "5", "6", "7", "8", "9", ":", ";", "<", "=", ">", "?",
       "@", "A", "B", "C", "D", "E", "F", "G", "H", "I", "J", "K", "L", "M", "N", "O",
       "P", "Q", "R", "S", "T", "U", "V", "W", "X", "Y", "Z", "[", "BSLASH", "]", "^", "_",
       "BACKTICK", "a", "b", "c", "d", "e", "f", "g", "h", "i", "j", "k", "l", "m", "n", "o",
       "p", "q", "r", "s", "t", "u", "v", "w", "x", "y", "z", "{", "|", "}", "~" >>

B64Alphabet ==
    << "A", "B", "C", "D", "E", "F", "G", "H", "I", "J", "K", "L", "M", "N", "O", "P",
       "Q", "R", "S", "T", "U", "V", "W", "X", "Y", "Z", "a", "b", "c", "d", "e", "f",
       "g", "h", "i", "j", "k", "l", "m", "n", "o", "p", "q", "r", "s", "t", "u", "v",
       "w", "x", "y", "z", "0", "1", "2", "3", "4", "5", "6", "7", "8", "9", "+", "/" >>

IndexOf(table, x) == CHOOSE i \in DOMAIN table : table[i] = x

\* ord(ch) and chr(code) on printable ASCII
OrdTable == [ch \in Range(Printable) |-> IndexOf(Printable, ch) + 31]

Ord(ch) == OrdTable[ch]

IsPrintableCode(code) == code - 31 \in DOMAIN Printable

Chr(code) == Printable[code - 31]

PyStr(s) == [type |-> "str", val |-> s]

PyBytes(b) == [type |-> "bytes", val |-> b]

PyList(l) == [type |-> "list", val |-> l]

\* str.encode() of an ASCII str
AsciiBytes(s) == [i \in DOMAIN s |-> Ord(s[i])]

\* s.strip(): the space is the only whitespace character of the inputs
RECURSIVE LStrip(_)
LStrip(s) == IF Len(s) > 0 /\ s[1] = " " THEN LStrip(Tail(s)) ELSE s

RECURSIVE RStrip(_)
RStrip(s) == IF Len(s) > 0 /\ s[Len(s)] = " " THEN RStrip(SubSeq(s, 1, Len(s) - 1)) ELSE s

Strip(s) == RStrip(LStrip(s))

LowerChar(ch) ==
    IF Ord(ch) >= Ord("A") /\ Ord(ch) <= Ord("Z") THEN Chr(Ord(ch) + (Ord("a") - Ord("A")))
    ELSE ch

UpperChar(ch) ==
    IF Ord(ch) >= Ord("a") /\ Ord(ch) <= Ord("z") THEN Chr(Ord(ch) - (Ord("a") - Ord("A")))
    ELSE ch

\* s.lower(), s.upper()
Lower(s) == [i \in DOMAIN s |-> LowerChar(s[i])]

Upper(s) == [i \in DOMAIN s |-> UpperChar(s[i])]

(***************************************************************************)
(* base64.b64decode (validate=False) and bytes methods                     *)
(***************************************************************************)
RECURSIVE a2b_base64(_, _, _, _, _, _)
\* binascii.a2b_base64 in its non-strict mode over the characters data[i..]:
\* characters outside the alphabet are skipped, a complete run of padding
\* ends the input, and leftover sextets are an error.
a2b_base64(data, i, quad_pos, leftchar, pads, out) ==
    IF i > Len(data) THEN
        IF quad_pos # 0 THEN [exc |-> "binascii.Error", val |-> <<>>]
        ELSE [exc |-> "", val |-> out]
    ELSE IF data[i] = "=" THEN
        IF quad_pos >= 2 /\ quad_pos + pads + 1 >= 4 THEN [exc |-> "", val |-> out]
        ELSE a2b_base64(data, i + 1, quad_pos, leftchar,
                        IF quad_pos >= 2 THEN pads + 1 ELSE pads, out)
    ELSE IF data[i] \notin Range(B64Alphabet) THEN
        a2b_base64(data, i + 1, quad_pos, leftchar, pads, out)
    ELSE
        LET v == IndexOf(B64Alphabet, data[i]) - 1
        IN  CASE quad_pos = 0 -> a2b_base64(data, i + 1, 1, v, 0, out)
              [] quad_pos = 1 -> a2b_base64(data, i + 1, 2, v % 16, 0,
                                            Append(out, leftchar * 4 + v \div 16))
              [] quad_pos = 2 -> a2b_base64(data, i + 1, 3, v % 4, 0,
                                            Append(out, leftchar * 16 + v \div 4))
              [] OTHER        -> a2b_base64(data, i + 1, 0, 0, 0,
                                            Append(out, leftchar * 64 + v))

\* b64decode(s): s must be bytes-like or an ASCII str; a list is a TypeError.
\* The val of the outcome is a bytes value.
b64decode(s) ==
    IF s.type = "list" THEN [exc |-> "TypeError", val |-> <<>>]
    ELSE LET data == IF s.type = "str" THEN s.val
                     ELSE [i \in DOMAIN s.val |->
                              IF IsPrintableCode(s.val[i]) THEN Chr(s.val[i]) ELSE "skipped"]
         IN  a2b_base64(data, 1, 0, 0, 0, <<>>)

RECURSIVE SplitInts(_, _, _)
SplitInts(b, sep, maxsplit) ==
    LET hit == {i \in DOMAIN b : b[i] = sep}
        i == IF hit = {} THEN 0 ELSE CHOOSE k \in hit : \A j \in hit : k <= j
    IN  IF maxsplit = 0 \/ i = 0 THEN <<b>>
        ELSE <<SubSeq(b, 1, i - 1)>> \o SplitInts(SubSeq(b, i + 1, Len(b)), sep, maxsplit - 1)

\* bytes.split(sep, maxsplit): sep must be bytes-like; a str is a TypeError.
bytes_split(b, sep, maxsplit) ==
    IF sep.type # "bytes" THEN [exc |-> "TypeError", val |-> <<>>]
    ELSE [exc |-> "", val |-> SplitInts(b, sep.val[1], maxsplit)]

\* bytes.decode('utf8') on the model's bytes: printable ASCII decodes to
\* itself; the byte 255 occurs in no UTF-8 encoding.
bytes_decode(b) ==
    IF \A i \in DOMAIN b : IsPrintableCode(b[i])
    THEN [exc |-> "", val |-> [i \in DOMAIN b |-> Chr(b[i])]]
    ELSE [exc |-> "UnicodeDecodeError", val |-> <<>>]

IsHex(ch) == ch \in {"0", "1", "2", "3", "4", "5", "6", "7", "8", "9",
                    "a", "b", "c", "d", "e", "f", "A", "B", "C", "D", "E", "F"}

HexVal(ch) ==
    IF Ord(ch) <= Ord("9") THEN Ord(ch) - Ord("0")
    ELSE Ord(LowerChar(ch)) - Ord("a") + 10

RECURSIVE unquote(_)
\* urllib.parse.unquote on printable ASCII: %XY becomes the character with
\* hexadecimal code XY; a % that two hex digits do not follow is kept.
unquote(s) ==
    IF Len(s) = 0 THEN s
    ELSE IF s[1] = "%" /\ Len(s) >= 3 /\ IsHex(s[2]) /\ IsHex(s[3])
            /\ IsPrintableCode(16 * HexVal(s[2]) + HexVal(s[3]))
         THEN <<Chr(16 * HexVal(s[2]) + HexVal(s[3]))>> \o unquote(From(s, 3))
         ELSE <<s[1]>> \o unquote(Tail(s))

(***************************************************************************)
(* basicauth_decode                                                        *)
(***************************************************************************)
DecodeError == [exc |-> "DecodeError", username |-> None, password |-> None]

\* Lines 220 and 232: username, password = b64decode(<arg>).split(':', 1)
\* inside try/except; any exception becomes DecodeError.  The separator is
\* the str ':' and the value split is the bytes that b64decode returns.
DecodeAndSplit(arg) ==
    LET raw == b64decode(arg)
    IN  IF raw.exc # "" THEN DecodeError
        ELSE LET pieces == bytes_split(raw.val, PyStr(<<":">>), 1)
             IN  IF pieces.exc # "" THEN DecodeError
                 ELSE IF Len(pieces.val) # 2 THEN DecodeError
                 ELSE [exc |-> "", username |-> Some(unquote(pieces.val[1])),
                       password |-> Some(unquote(pieces.val[2]))]

basicauth_decode(encoded) ==
    \* line 212: a str has no decode method; the AttributeError is caught
    IF encoded.type # "bytes" THEN DecodeError
    ELSE LET text == bytes_decode(encoded.val)
         IN  IF text.exc # "" THEN DecodeError
             ELSE LET components == Split(Strip(text.val), " ", -1)
                  IN  IF Len(components) = 1 THEN
                          \* line 220 passes the list itself to b64decode
                          DecodeAndSplit(PyList(components))
                      ELSE IF Len(components) = 2 THEN
                          IF Lower(Strip(components[1])) = <<"b", "a", "s", "i", "c">>
                          THEN DecodeAndSplit(PyStr(Strip(components[2])))
                          ELSE DecodeError
                      ELSE DecodeError

\* base64 of bytes, RFC 4648 with padding: what a client puts in the header
RECURSIVE B64Encode(_)
B64Encode(b) ==
    LET c(k) == B64Alphabet[k + 1]
    IN  IF Len(b) = 0 THEN <<>>
        ELSE IF Len(b) = 1 THEN
            <<c(b[1] \div 4), c((b[1] % 4) * 16), "=", "=">>
        ELSE IF Len(b) = 2 THEN
            <<c(b[1] \div 4), c((b[1] % 4) * 16 + b[2] \div 16), c((b[2] % 16) * 4), "=">>
        ELSE
            <<c(b[1] \div 4), c((b[1] % 4) * 16 + b[2] \div 16),
              c((b[2] % 16) * 4 + b[3] \div 64), c(b[3] % 64)>> \o B64Encode(From(b, 3))

(***************************************************************************)
(* class HttpVerb and class AuthPolicy                                     *)
(***************************************************************************)
\* The names hasattr(HttpVerb, name) finds: the eight class attributes of
\* lines 33-40, and the attributes every class inherits from object (two of
\* them stand for the rest).
HttpVerbAttrs ==
    { <<"G", "E", "T">>, <<"P", "O", "S", "T">>, <<"P", "U", "T">>,
      <<"P", "A", "T", "C", "H">>, <<"H", "E", "A", "D">>,
      <<"D", "E", "L", "E", "T", "E">>, <<"O", "P", "T", "I", "O", "N", "S">>,
      <<"A", "L", "L">>,
      <<"_", "_", "d", "o", "c", "_", "_">>, <<"_", "_", "i", "n", "i", "t", "_", "_">> }

\* HttpVerb.ALL
HttpVerb_ALL == <<"*">>

\* The class attributes of AuthPolicy, lines 49-75.
AuthPolicy_attrs ==
    [aws_accountid |-> Some(<<>>),
     principalId   |-> <<>>,
     version       |-> <<"2", "0", "1", "2", "-", "1", "0", "-", "1", "7">>,
     allow_methods |-> <<>>,
     deny_methods  |-> <<>>,
     restapiid     |-> Some(<<"*">>),
     region        |-> Some(<<"*">>),
     stage         |-> Some(<<"*">>)]

\* re.match(pathRegex, resource) with pathRegex = ^[/.a-zA-Z0-9-\*]+$
PathMatches(resource) ==
    /\ Len(resource) > 0
    /\ \A i \in DOMAIN resource :
          \/ resource[i] \in {"/", ".", "-", "*"}
          \/ Ord(resource[i]) >= Ord("a") /\ Ord(resource[i]) <= Ord("z")
          \/ Ord(resource[i]) >= Ord("A") /\ Ord(resource[i]) <= Ord("Z")
          \/ Ord(resource[i]) >= Ord("0") /\ Ord(resource[i]) <= Ord("9")

\* __init__ without lines 80-81: the instance keeps no lists of its own
AuthPolicy__init__noOwnLists(principal, aws_accountid) ==
    [aws_accountid |-> aws_accountid, principalId |-> principal]

\* AuthPolicy.__init__: the instance __dict__ after construction
AuthPolicy__init__(principal, aws_accountid) ==
    [aws_accountid |-> aws_accountid, principalId |-> principal,
     allow_methods |-> <<>>, deny_methods |-> <<>>]

\* self.<name>: the instance attribute, else the class attribute
GetAttr(cls, self, name) == IF name \in DOMAIN self THEN self[name] ELSE cls[name]

\* self.<name> = value
SetAttr(self, name, value) ==
    [k \in DOMAIN self \cup {name} |-> IF k = name THEN value ELSE self[k]]

\* self.<name>.append(x): the list found by attribute lookup is changed in
\* place, be it the list of the instance or the list of the class
AppendAttr(cls, self, name, x) ==
    IF name \in DOMAIN self
    THEN [cls |-> cls, self |-> [self EXCEPT ![name] = Append(@, x)]]
    ELSE [cls |-> [cls EXCEPT ![name] = Append(@, x)], self |-> self]

\* str(v) inside an f-string, for an attribute that may hold None
Format(v) == IF IsNone(v) THEN <<"N", "o", "n", "e">> ELSE Get(v)

\* line 97
ResourceArn(cls, self, verb, resource) ==
    <<"a", "r", "n", ":", "a", "w", "s", ":",
      "e", "x", "e", "c", "u", "t", "e", "-", "a", "p", "i", ":">>
    \o Format(GetAttr(cls, self, "region")) \o <<":">>
    \o Format(GetAttr(cls, self, "aws_accountid")) \o <<":">>
    \o Format(GetAttr(cls, self, "restapiid")) \o <<"/">>
    \o Format(GetAttr(cls, self, "stage")) \o <<"/">>
    \o verb \o <<"/">> \o resource

\* _add_method: the outcome and the class and instance state it leaves
AuthPolicy_add_method(cls, self, effect, verb, resource, conditions) ==
    IF verb # <<"*">> /\ verb \notin HttpVerbAttrs THEN
        [exc |-> "NameError", args |-> "Invalid HTTP verb", cls |-> cls, self |-> self]
    ELSE IF ~PathMatches(resource) THEN
        [exc |-> "NameError", args |-> "Invalid resource path", cls |-> cls, self |-> self]
    ELSE
        LET path == IF resource[Len(resource)] = "/" THEN From(resource, 1) ELSE resource
            grant == [resourceArn |-> ResourceArn(cls, self, verb, path),
                      conditions |-> conditions]
            after == IF Lower(effect) = <<"a", "l", "l", "o", "w">>
                         THEN AppendAttr(cls, self, "allow_methods", grant)
                     ELSE IF Lower(effect) = <<"d", "e", "n", "y">>
                         THEN AppendAttr(cls, self, "deny_methods", grant)
                     ELSE [cls |-> cls, self |-> self]
        IN  [exc |-> "", args |-> "", cls |-> after.cls, self |-> after.self]

\* _get_empty_statement; Condition is None while the statement has no such key
GetEmptyStatement(effect) ==
    [Action    |-> "execute-api:Invoke",
     Effect    |-> Upper(SubSeq(effect, 1, 1)) \o Lower(From(effect, 1)),
     Resource  |-> <<>>,
     Condition |-> None]

RECURSIVE StatementLoop(_, _, _, _)
\* the loop of lines 129-136 over methods, then line 138
StatementLoop(effect, methods, statement, statements) ==
    IF Len(methods) = 0 THEN Append(statements, statement)
    ELSE LET curMethod == Head(methods)
         IN  IF IsNone(curMethod.conditions) \/ Len(Get(curMethod.conditions)) = 0
             THEN StatementLoop(effect, Tail(methods),
                      [statement EXCEPT !.Resource = Append(@, curMethod.resourceArn)],
                      statements)
             ELSE StatementLoop(effect, Tail(methods), statement,
                      Append(statements,
                             [GetEmptyStatement(effect) EXCEPT
                                 !.Resource = <<curMethod.resourceArn>>,
                                 !.Condition = curMethod.conditions]))

\* _get_statement_for_effect
GetStatementForEffect(effect, methods) ==
    IF Len(methods) > 0 THEN StatementLoop(effect, methods, GetEmptyStatement(effect), <<>>)
    ELSE <<>>

\* build with the emptiness test on allow_methods alone
AuthPolicy_build_allowOnly(cls, self) ==
    IF Len(GetAttr(cls, self, "allow_methods")) = 0
    THEN [exc |-> "NameError", value |-> None]
    ELSE [exc |-> "",
          value |-> Some([principalId |-> GetAttr(cls, self, "principalId"),
                          policyDocument |->
                            [Version |-> GetAttr(cls, self, "version"),
                             Statement |->
                                GetStatementForEffect(<<"A", "l", "l", "o", "w">>,
                                                      GetAttr(cls, self, "allow_methods"))
                                \o GetStatementForEffect(<<"D", "e", "n", "y">>,
                                                      GetAttr(cls, self, "deny_methods"))]])]

\* build: NameError("No statements defined for the policy"), or the document
AuthPolicy_build(cls, self) ==
    IF Len(GetAttr(cls, self, "allow_methods")) = 0
       /\ Len(GetAttr(cls, self, "deny_methods")) = 0
    THEN [exc |-> "NameError", value |-> None]
    ELSE [exc |-> "",
          value |-> Some([principalId |-> GetAttr(cls, self, "principalId"),
                          policyDocument |->
                            [Version |-> GetAttr(cls, self, "version"),
                             Statement |->
                                GetStatementForEffect(<<"A", "l", "l", "o", "w">>,
                                                      GetAttr(cls, self, "allow_methods"))
                                \o GetStatementForEffect(<<"D", "e", "n", "y">>,
                                                      GetAttr(cls, self, "deny_methods"))]])]

\* allow_all_methods
AuthPolicy_allow_all_methods(cls, self) ==
    AuthPolicy_add_method(cls, self, <<"A", "l", "l", "o", "w">>, HttpVerb_ALL, <<"*">>,
                          Some(<<>>))

(***************************************************************************)
(* check_basicauth_header_authorization_handler                            *)
(***************************************************************************)
\* os.getenv('BASIC_AUTH_USERNAME', None) and os.getenv('BASIC_AUTH_PASSWORD',
\* None) of the process the model runs the handler in
BASIC_AUTH_USERNAME == Some(<<"a">>)

BASIC_AUTH_PASSWORD == Some(<<"a", "a">>)

\* HTTPError(*args): urllib.error.HTTPError.__init__(self, url, code, msg,
\* hdrs, fp) has five required parameters
HTTPError(args) ==
    IF Len(args) # 5 THEN [exc |-> "TypeError", args |-> "HTTPError.__init__() missing arguments"]
    ELSE [exc |-> "HTTPError", args |-> args[3]]

Raised(cls, exc, args) ==
    [exc |-> exc, args |-> args, value |-> None, policy |-> None, cls |-> cls]

\* Lines 285-289: build the document and return it
HandlerBuild(added) ==
    IF added.exc # "" THEN
        [exc |-> added.exc, args |-> added.args, value |-> None,
         policy |-> Some(added.self), cls |-> added.cls]
    ELSE
        LET built == AuthPolicy_build(added.cls, added.self)
        IN  [exc |-> built.exc, args |-> "", value |-> built.value,
             policy |-> Some(added.self), cls |-> added.cls]

\* Lines 280-283: policy = AuthPolicy(principal_id, account_id), then
\* policy.restapiid = resource_type, policy.stage = resource and
\* policy.allow_all_methods()
HandlerPolicy(cls, arn) ==
    IF arn.exc # "" THEN Raised(cls, arn.exc, "")
    ELSE HandlerBuild(
             AuthPolicy_allow_all_methods(cls,
                 SetAttr(SetAttr(AuthPolicy__init__(<<"*">>, arn.account_id),
                                 "restapiid", arn.resource_type),
                         "stage", arn.resource)))

\* Lines 260-278: the decoded credentials against the expected ones, then
\* parse_arn(event['methodArn'])
HandlerCheck(cls, ev, d) ==
    IF d.exc = "DecodeError" THEN Raised(cls, "Exception", "Unauthorized")
    ELSE IF d.username # BASIC_AUTH_USERNAME THEN Raised(cls, "Exception", "Unauthorized")
    ELSE IF d.password # BASIC_AUTH_PASSWORD THEN Raised(cls, "Exception", "Unauthorized")
    ELSE HandlerPolicy(cls, parse_arn(ev.methodArn))

\* The outcome of one invocation: the exception that leaves the handler (exc,
\* args) or the returned document (value), the AuthPolicy instance
\* constructed on the way (policy), and the class state left behind (cls).
handler(cls, ev) ==
    IF IsNone(ev.headers.Authorization) \/ Len(Get(ev.headers.Authorization).val) = 0 THEN
        \* line 256: raise HTTPError('Unauthorized')
        Raised(cls, HTTPError(<<"Unauthorized">>).exc, HTTPError(<<"Unauthorized">>).args)
    ELSE
        HandlerCheck(cls, ev, basicauth_decode(Get(ev.headers.Authorization)))

(***************************************************************************)
(* Inputs                                                                  *)
(***************************************************************************)
MaxArnLen == 8

MaxCredLen == 4

MaxGrants == 2

\* parse_arn: every string over these characters up to the bound
ArnChars == {"a", ":", "/"}

ArnStrings == SeqsUpTo(ArnChars, MaxArnLen)

\* basicauth_decode: the plaintexts a client encodes, and the header values
\* built from them, each as bytes and as str
CredChars == {"a", ":"}

Plaintexts == SeqsUpTo(CredChars, MaxCredLen)

Token(plain) == B64Encode(AsciiBytes(plain))

HeaderTexts ==
    UNION {{ Token(p),
             <<"B", "a", "s", "i", "c", " ">> \o Token(p),
             <<"b", "a", "s", "i", "c", " ">> \o Token(p),
             <<" ", "B", "A", "S", "I", "C", " ">> \o Token(p) \o <<" ">>,
             <<"B", "e", "a", "r", "e", "r", " ">> \o Token(p),
             <<"B", "a", "s", "i", "c", " ">> \o Token(p) \o <<" ", "x">>,
             <<"B", "a", "s", "i", "c", " ">> \o Token(p) \o <<"Q">> } : p \in Plaintexts}

DecodeInputs ==
    {PyBytes(AsciiBytes(t)) : t \in HeaderTexts} \cup {PyStr(t) : t \in HeaderTexts}
    \cup {PyBytes(<<255>>)}

\* handler: the events
MethodArns ==
    { <<"a", "r", "n", ":", "a", "w", "s", ":",
        "e", "x", "e", "c", "u", "t", "e", "-", "a", "p", "i", ":",
        "r", ":", "1", ":", "a", "p", "i", "/", "s", "t", "/", "G", "E", "T", "/", "x">>,
      <<"a", "r", "n", ":", "a", "w", "s", ":",
        "e", "x", "e", "c", "u", "t", "e", "-", "a", "p", "i", ":",
        "r", ":", "1", ":", "a", "p", "i", "/", "s", "t">>,
      <<"x">> }

HeaderValues == {None, Some(PyStr(<<>>))} \cup {Some(h) : h \in DecodeInputs}

Events ==
    {[headers |-> [Authorization |-> h], methodArn |-> m] : h \in HeaderValues, m \in MethodArns}

\* AuthPolicy: the builder slots and the arguments of _add_method
Builders == {1, 2}

AccountOf(b) == Some(<<Chr(Ord("0") + b)>>)

Effects == { <<"A", "l", "l", "o", "w">>, <<"D", "E", "N", "Y">>,
             <<"p", "e", "r", "m", "i", "t">> }

Verbs == { <<"G", "E", "T">>, <<"T", "R", "A", "C", "E">>, <<"A", "L", "L">> }

Paths == { <<"x">>, <<"?">> }

Conditions == { None, Some(<<"c">>) }

NoCall ==
    [op |-> "", self |-> 0, effect |-> <<>>, verb |-> <<>>, resource |-> <<>>,
     conditions |-> None, exc |-> "", args |-> "", value |-> None]

(***************************************************************************)
(* State machines                                                          *)
(***************************************************************************)
Idle ==
    /\ arn_str = <<>> /\ parsed = None
    /\ encoded_str = PyBytes(<<>>) /\ decoded = None
    /\ event = [headers |-> [Authorization |-> None], methodArn |-> <<>>]
    /\ response = None
    /\ AuthPolicy_class = AuthPolicy_attrs
    /\ instances = [b \in Builders |-> None]
    /\ lastCall = NoCall

\* ---- parse_arn applied to one argument
InitParse ==
    /\ arn_str \in ArnStrings /\ parsed = None
    /\ encoded_str = PyBytes(<<>>) /\ decoded = None
    /\ event = [headers |-> [Authorization |-> None], methodArn |-> <<>>]
    /\ response = None
    /\ AuthPolicy_class = AuthPolicy_attrs
    /\ instances = [b \in Builders |-> None]
    /\ lastCall = NoCall

ParseArn ==
    /\ IsNone(parsed)
    /\ parsed' = Some(parse_arn(arn_str))
    /\ UNCHANGED <<arn_str, encoded_str, decoded, event, response,
                   AuthPolicy_class, instances, lastCall>>

NextParse == ParseArn

SpecParse == InitParse /\ [][NextParse]_vars

\* ---- basicauth_decode applied to one argument
InitDecode ==
    /\ arn_str = <<>> /\ parsed = None
    /\ encoded_str \in DecodeInputs /\ decoded = None
    /\ event = [headers |-> [Authorization |-> None], methodArn |-> <<>>]
    /\ response = None
    /\ AuthPolicy_class = AuthPolicy_attrs
    /\ instances = [b \in Builders |-> None]
    /\ lastCall = NoCall

BasicauthDecode ==
    /\ IsNone(decoded)
    /\ decoded' = Some(basicauth_decode(encoded_str))
    /\ UNCHANGED <<arn_str, parsed, encoded_str, event, response,
                   AuthPolicy_class, instances, lastCall>>

NextDecode == BasicauthDecode

SpecDecode == InitDecode /\ [][NextDecode]_vars

\* ---- one invocation of the handler
InitHandler ==
    /\ arn_str = <<>> /\ parsed = None
    /\ encoded_str = PyBytes(<<>>) /\ decoded = None
    /\ event \in Events
    /\ response = None
    /\ AuthPolicy_class = AuthPolicy_attrs
    /\ instances = [b \in Builders |-> None]
    /\ lastCall = NoCall

Handler ==
    /\ IsNone(response)
    /\ LET out == handler(AuthPolicy_class, event)
       IN  /\ response' = Some([exc |-> out.exc, args |-> out.args, value |-> out.value,
                                policy |-> out.policy])
           /\ AuthPolicy_class' = out.cls
    /\ UNCHANGED <<arn_str, parsed, encoded_str, decoded, event, instances, lastCall>>

NextHandler == Handler

SpecHandler == InitHandler /\ [][NextHandler]_vars

\* ---- AuthPolicy instances built up call by call
Init == Idle

\* The grants held by the lists of instance slot b itself
OwnGrants(b) ==
    IF IsNone(instances[b]) \/ "allow_methods" \notin DOMAIN Get(instances[b]) THEN 0
    ELSE Len(Get(instances[b]).allow_methods) + Len(Get(instances[b]).deny_methods)

RECURSIVE SumOwnGrants(_)
SumOwnGrants(S) ==
    IF S = {} THEN 0
    ELSE LET b == CHOOSE x \in S : TRUE IN OwnGrants(b) + SumOwnGrants(S \ {b})

\* All grants recorded so far, in the lists of the instances and of the class
Recorded ==
    Len(AuthPolicy_class.allow_methods) + Len(AuthPolicy_class.deny_methods)
    + SumOwnGrants(Builders)

\* policy = AuthPolicy('*', account_id)
Construct(b) ==
    /\ IsNone(instances[b])
    /\ instances' = [instances EXCEPT ![b] = Some(AuthPolicy__init__(<<"*">>, AccountOf(b)))]
    /\ lastCall' = [NoCall EXCEPT !.op = "__init__", !.self = b]
    /\ UNCHANGED <<arn_str, parsed, encoded_str, decoded, event, response, AuthPolicy_class>>

\* policy._add_method(effect, verb, resource, conditions)
AddMethod(b) ==
    /\ ~IsNone(instances[b])
    /\ Recorded < MaxGrants
    /\ \E effect \in Effects, verb \in Verbs, resource \in Paths, conditions \in Conditions :
          LET out == AuthPolicy_add_method(AuthPolicy_class, Get(instances[b]),
                                           effect, verb, resource, conditions)
          IN  /\ AuthPolicy_class' = out.cls
              /\ instances' = [instances EXCEPT ![b] = Some(out.self)]
              /\ lastCall' = [NoCall EXCEPT !.op = "_add_method", !.self = b,
                                 !.effect = effect, !.verb = verb, !.resource = resource,
                                 !.conditions = conditions, !.exc = out.exc,
                                 !.args = out.args]
    /\ UNCHANGED <<arn_str, parsed, encoded_str, decoded, event, response>>

\* policy.allow_all_methods()
AllowAllMethods(b) ==
    /\ ~IsNone(instances[b])
    /\ Recorded < MaxGrants
    /\ LET out == AuthPolicy_allow_all_methods(AuthPolicy_class, Get(instances[b]))
       IN  /\ AuthPolicy_class' = out.cls
           /\ instances' = [instances EXCEPT ![b] = Some(out.self)]
           /\ lastCall' = [NoCall EXCEPT !.op = "allow_all_methods", !.self = b,
                              !.effect = <<"A", "l", "l", "o", "w">>, !.verb = HttpVerb_ALL,
                              !.resource = <<"*">>, !.conditions = Some(<<>>),
                              !.exc = out.exc]
    /\ UNCHANGED <<arn_str, parsed, encoded_str, decoded, event, response>>

\* policy.build()
Build(b) ==
    /\ ~IsNone(instances[b])
    /\ LET out == AuthPolicy_build(AuthPolicy_class, Get(instances[b]))
       IN  lastCall' = [NoCall EXCEPT !.op = "build", !.self = b, !.exc = out.exc,
                           !.value = out.value]
    /\ UNCHANGED <<arn_str, parsed, encoded_str, decoded, event, response,
                   AuthPolicy_class, instances>>

Next ==
    \E b \in Builders :
        \/ Construct(b)
        \/ AddMethod(b)
        \/ AllowAllMethods(b)
        \/ Build(b)

Spec == Init /\ [][Next]_vars

(***************************************************************************)
(* parse_arn: top-level fields (C5) and single-separator resources (C6)    *)
(***************************************************************************)
NoReference(r) ==
    /\ IsNone(r.service) /\ IsNone(r.region) /\ IsNone(r.account_id)
    /\ IsNone(r.resource_type) /\ IsNone(r.resource) /\ IsNone(r.qualifiers)

C6_OneSeparatorSplitsTypeAndResource ==
    (~IsNone(parsed) /\ Count(arn_str, ":") >= 5) =>
        LET elements == Split(arn_str, ":", 5)[6]
            sep == IF Contains(elements, ":") THEN ":" ELSE "/"
            at == Find(elements, sep)
            r == Get(parsed)
        IN  (Count(elements, ":") + Count(elements, "/") = 1) =>
                /\ r.exc = ""
                /\ r.resource_type = Some(SubSeq(elements, 1, at - 1))
                /\ r.resource = Some(From(elements, at))
                /\ IsNone(r.qualifiers)

(***************************************************************************)
(* basicauth_decode: the round trip with the client's encoding (C3)        *)
(***************************************************************************)
\* C3: for a username without a colon and any password, basicauth_decode of
\* the base64 of "username:password", alone or after a first token that is
\* "basic" in any letter case, returns (username, password), split at the
\* first colon.
C3_DecodeReturnsEncodedPair ==
    ~IsNone(decoded) =>
        \A plain \in Plaintexts :
            (/\ Contains(plain, ":")
             /\ encoded_str \in
                   { PyBytes(AsciiBytes(Token(plain))),
                     PyBytes(AsciiBytes(<<"B", "a", "s", "i", "c", " ">> \o Token(plain))),
                     PyBytes(AsciiBytes(<<"b", "a", "s", "i", "c", " ">> \o Token(plain))) })
            => Get(decoded) =
                 [exc |-> "",
                  username |-> Some(SubSeq(plain, 1, Find(plain, ":") - 1)),
                  password |-> Some(From(plain, Find(plain, ":")))]

(***************************************************************************)
(* The handler (C1, C2, C4)                                                *)
(***************************************************************************)
ExpectedPlain == Get(BASIC_AUTH_USERNAME) \o <<":">> \o Get(BASIC_AUTH_PASSWORD)

\* The header values that carry the expected username and password
AcceptableTexts ==
    { Token(ExpectedPlain),
      <<"B", "a", "s", "i", "c", " ">> \o Token(ExpectedPlain),
      <<"b", "a", "s", "i", "c", " ">> \o Token(ExpectedPlain),
      <<" ", "B", "A", "S", "I", "C", " ">> \o Token(ExpectedPlain) \o <<" ">>,
      <<"B", "a", "s", "i", "c", " ">> \o Token(ExpectedPlain) \o <<"Q">> }

AcceptableHeaders ==
    {Some(PyStr(t)) : t \in AcceptableTexts}
    \cup {Some(PyBytes(AsciiBytes(t))) : t \in AcceptableTexts}

Unauthorized == [exc |-> "Exception", args |-> "Unauthorized", value |-> None, policy |-> None]

\* C1: a document is returned only for a header that carries the expected
\* username and password; every other request (no credential can be
\* extracted, or a field differs) ends in the Unauthorized error with no
\* AuthPolicy constructed and no document returned.
C1_OnlyExpectedCredentialsGetADocument ==
    (~IsNone(response) /\ event.headers.Authorization \notin AcceptableHeaders)
        => Get(response) = Unauthorized

WellFormedMethodArn ==
    <<"a", "r", "n", ":", "a", "w", "s", ":",
      "e", "x", "e", "c", "u", "t", "e", "-", "a", "p", "i", ":",
      "r", ":", "1", ":", "a", "p", "i", "/", "s", "t", "/", "G", "E", "T", "/", "x">>

\* C2: for the well-formed Basic header of the expected credentials and a
\* methodArn of the form api-id/stage/VERB/path, the handler returns a
\* document with principalId "*" and exactly one Allow statement whose only
\* resource names the account, the API identifier and the stage of the
\* methodArn, with verb and path both "*".
C2_ExpectedCredentialsAllowTheWholeApi ==
    (/\ ~IsNone(response)
     /\ event.headers.Authorization =
           Some(PyStr(<<"B", "a", "s", "i", "c", " ">> \o Token(ExpectedPlain)))
     /\ event.methodArn = WellFormedMethodArn)
    => /\ Get(response).exc = ""
       /\ Get(response).value =
            Some([principalId |-> <<"*">>,
                  policyDocument |->
                    [Version |-> AuthPolicy_attrs.version,
                     Statement |->
                       << [Action |-> "execute-api:Invoke",
                           Effect |-> <<"A", "l", "l", "o", "w">>,
                           Resource |->
                             << <<"a", "r", "n", ":", "a", "w", "s", ":",
                                  "e", "x", "e", "c", "u", "t", "e", "-", "a", "p", "i", ":",
                                  "*", ":", "1", ":", "a", "p", "i", "/", "s", "t", "/",
                                  "*", "/", "*">> >>,
                           Condition |-> None] >>]])

ErrorOf(out) == <<out.exc, out.args>>

\* C4: an absent header, a header that does not decode, a wrong username and
\* a wrong password all surface one and the same error: whichever of these
\* requests was made, every other such request with the same methodArn ends
\* in the error this one ended in.
C4_RejectionsAreIndistinguishable ==
    (~IsNone(response) /\ event.headers.Authorization \notin AcceptableHeaders) =>
        \A h \in HeaderValues \ AcceptableHeaders :
            ErrorOf(handler(AuthPolicy_attrs, [headers |-> [Authorization |-> h],
                                               methodArn |-> event.methodArn]))
                = ErrorOf(Get(response))

(***************************************************************************)
(* AuthPolicy: statements (C7), verbs (C8), empty policies (C9) and        *)
(* independent instances (C10)                                             *)
(***************************************************************************)
\* The allow and deny lists that instance slot b sees
AllowOf(b) == GetAttr(AuthPolicy_class, Get(instances[b]), "allow_methods")

DenyOf(b) == GetAttr(AuthPolicy_class, Get(instances[b]), "deny_methods")

Conditioned(m) == ~IsNone(m.conditions) /\ Len(Get(m.conditions)) > 0

Unconditioned(m) == ~Conditioned(m)

\* The statements C7 describes for one effect
ClaimedStatements(effect, methods) ==
    LET single(m) == [Action |-> "execute-api:Invoke", Effect |-> effect,
                      Resource |-> <<m.resourceArn>>, Condition |-> m.conditions]
        conditioned == SelectSeq(methods, Conditioned)
        merged == SelectSeq(methods, Unconditioned)
    IN  [i \in DOMAIN conditioned |-> single(conditioned[i])]
        \o (IF Len(merged) = 0 THEN <<>>
            ELSE << [Action |-> "execute-api:Invoke", Effect |-> effect,
                     Resource |-> [i \in DOMAIN merged |-> merged[i].resourceArn],
                     Condition |-> None] >>)

\* C7: build returns one statement per conditioned Allow grant in grant
\* order, then one merged Allow statement with the ARNs of the unconditioned
\* Allow grants in insertion order, present only if there is such a grant,
\* then the same for Deny; every statement has at least one resource, and a
\* statement with a condition has exactly one.
C7_StatementsPerGrantThenMerged ==
    (lastCall.op = "build" /\ lastCall.exc = "") =>
        LET statements == Get(lastCall.value).policyDocument.Statement
        IN  /\ statements =
                  ClaimedStatements(<<"A", "l", "l", "o", "w">>, AllowOf(lastCall.self))
                  \o ClaimedStatements(<<"D", "e", "n", "y">>, DenyOf(lastCall.self))
            /\ \A i \in DOMAIN statements :
                  /\ Len(statements[i].Resource) >= 1
                  /\ ~IsNone(statements[i].Condition) => Len(statements[i].Resource) = 1

\* "*" and the seven enumerated HTTP verbs
ValidVerbs ==
    { <<"*">>, <<"G", "E", "T">>, <<"P", "O", "S", "T">>, <<"P", "U", "T">>,
      <<"P", "A", "T", "C", "H">>, <<"H", "E", "A", "D">>,
      <<"D", "E", "L", "E", "T", "E">>, <<"O", "P", "T", "I", "O", "N", "S">> }

\* C8: _add_method with a verb that is neither "*" nor one of the seven
\* HTTP verbs raises the invalid-verb error and leaves the allow and deny
\* lists as they were.
C8_OtherVerbsAreRejected ==
    [][ \A b \in Builders :
          (lastCall'.op = "_add_method" /\ lastCall'.self = b
              /\ lastCall'.verb \notin ValidVerbs) =>
            /\ lastCall'.exc = "NameError"
            /\ lastCall'.args = "Invalid HTTP verb"
            /\ AllowOf(b)' = AllowOf(b)
            /\ DenyOf(b)' = DenyOf(b) ]_vars

\* C9: build raises the empty-policy error exactly when the allow and the
\* deny list of the instance are both empty, and returns a document
\* otherwise; a call of _add_method whose effect is neither "allow" nor "deny"
\* in any letter case records nothing in either list, and raises nothing
\* when its verb and path are valid.
C9_BuildFailsExactlyWhenNoGrants ==
    [][ \A b \in Builders :
          /\ (lastCall'.op = "build" /\ lastCall'.self = b) =>
                /\ lastCall'.exc = "NameError"
                      <=> (Len(AllowOf(b)') = 0 /\ Len(DenyOf(b)') = 0)
                /\ lastCall'.exc \in {"", "NameError"}
                /\ lastCall'.exc = "" <=> ~IsNone(lastCall'.value)
          /\ (/\ lastCall'.op = "_add_method" /\ lastCall'.self = b
              /\ Lower(lastCall'.effect)
                    \notin {<<"a", "l", "l", "o", "w">>, <<"d", "e", "n", "y">>})
             => /\ AllowOf(b)' = AllowOf(b)
                /\ DenyOf(b)' = DenyOf(b)
                /\ (lastCall'.verb \in ValidVerbs /\ PathMatches(lastCall'.resource))
                      => lastCall'.exc = "" ]_vars

C9_Witness ==
    /\ lastCall.op = "build"
    /\ lastCall.exc = "NameError"
    /\ Len(AllowOf(lastCall.self)) = 0
    /\ Len(DenyOf(lastCall.self)) = 0
    /\ \E b \in Builders \ {lastCall.self} :
          ~IsNone(instances[b]) /\ Len(DenyOf(b)) > 0

\* The ARNs of instance slot b start with this prefix (region "*", the
\* account the instance was constructed with)
ArnPrefix(b) ==
    <<"a", "r", "n", ":", "a", "w", "s", ":",
      "e", "x", "e", "c", "u", "t", "e", "-", "a", "p", "i", ":", "*", ":">>
    \o Get(AccountOf(b)) \o <<":">>

StartsWith(s, prefix) == Len(s) >= Len(prefix) /\ SubSeq(s, 1, Len(prefix)) = prefix

\* C10: instances share no grants.  A new instance starts with empty lists;
\* a call on one instance leaves the lists every other instance sees as they
\* were; and the lists an instance sees, and the document it builds, hold
\* only ARNs of its own account.
C10_InstancesShareNoGrants ==
    [][ \A b \in Builders :
          /\ (lastCall'.op = "__init__" /\ lastCall'.self = b)
                => (AllowOf(b)' = <<>> /\ DenyOf(b)' = <<>>)
          /\ (~IsNone(instances[b]) /\ lastCall'.self # b)
                => (AllowOf(b)' = AllowOf(b) /\ DenyOf(b)' = DenyOf(b))
          /\ ~IsNone(instances[b]') =>
                /\ \A i \in DOMAIN AllowOf(b)' : StartsWith(AllowOf(b)'[i].resourceArn, ArnPrefix(b))
                /\ \A i \in DOMAIN DenyOf(b)' : StartsWith(DenyOf(b)'[i].resourceArn, ArnPrefix(b))
          /\ (lastCall'.op = "build" /\ lastCall'.self = b /\ ~IsNone(lastCall'.value)) =>
                LET statements == Get(lastCall'.value).policyDocument.Statement
                IN  \A i \in DOMAIN statements : \A j \in DOMAIN statements[i].Resource :
                        StartsWith(statements[i].Resource[j], ArnPrefix(b)) ]_vars

C10_Witness ==
    /\ \A b \in Builders : ~IsNone(instances[b])
    /\ lastCall.op = "build"
    /\ ~IsNone(lastCall.value)
    /\ \E b \in Builders \ {lastCall.self} :
          /\ Len(AllowOf(b)) > 0
          /\ Len(AllowOf(lastCall.self)) = 0
          /\ Len(DenyOf(lastCall.self)) > 0

=============================================================================
